---- MODULE Spec2Model ----
(***************************************************************************)
(* A model of the json-api request pipeline:                               *)
(*   - APIController.handle, the coroutine that turns a Request into a     *)
(*     Response, one action per stage it yields on;                        *)
(*   - APIController.responseFromExternalError;                            *)
(*   - runQuery (enforceMaxLimit, applyDefaultLimit, dispatchQuery).       *)
(* JavaScript values are tagged records ([kind |-> ...]) so that           *)
(* undefined, null, strings, numbers and arrays stay distinct.             *)
(***************************************************************************)
EXTENDS Integers, Sequences, FiniteSets, TLC

VARIABLES
  registry,   \* the ResourceTypeRegistry handed to the controller
  request,    \* request[r]: the Request of handle call r
  response,   \* response[r]: the Response built by handle call r
  pc,         \* pc[r]: the stage handle call r is suspended before
  parsed,     \* parsed[r]: handle's local parsedPrimary
  calls,      \* calls[r]: the stages and external functions invoked so far
  locals,     \* locals[r]: what handle call r caught, and its label step
  ext,        \* the one call of responseFromExternalError
  rq,         \* the one call of runQuery
  hk          \* the calls of the hook invoker

vars == <<registry, request, response, pc, parsed, calls, locals, ext, rq, hk>>

handleVars == <<request, response, pc, parsed, calls, locals>>

(***************************************************************************)
(* Bounds of the model.                                                    *)
(***************************************************************************)
\* handle calls the model has slots for
NumReqs == 2
\* longest Accept list of a request
MaxAccepts == 2
\* largest page[limit] a query asks for
MaxLimit == 4
\* largest defaultPageSize / maxPageSize a type is configured with
MaxPageSize == 3
\* how often the hook invoker is called with the same arguments
MaxInvocations == 2

Reqs == 1..NumReqs

(***************************************************************************)
(* JavaScript values.                                                      *)
(***************************************************************************)
Undefined == [kind |-> "undefined"]

Null == [kind |-> "null"]

Str(s) == [kind |-> "string", val |-> s]

\* a string of decimal digits, kept as its digits: "404" is <<4, 0, 4>>
DigitStr(ds) == [kind |-> "string", val |-> ds]

Num(n) == [kind |-> "number", val |-> n]

Arr(a) == [kind |-> "array", val |-> a]

Collection(rs) == [kind |-> "Collection", val |-> rs]

Resource(t, id) == [kind |-> "Resource", type |-> t, id |-> id]

isArray(v) == v.kind = "array"

\* JavaScript truthiness of the values a request's idOrIds can hold
Truthy(v) ==
  /\ v.kind \notin {"undefined", "null"}
  /\ ~(v.kind = "string" /\ v.val = "")

RECURSIVE DigitsToNat(_)
DigitsToNat(ds) ==
  IF Len(ds) = 0 THEN 0
  ELSE 10 * DigitsToNat(SubSeq(ds, 1, Len(ds) - 1)) + ds[Len(ds)]

\* Number(v) for a number or a string of digits
Number(v) == IF v.kind = "number" THEN v.val ELSE DigitsToNat(v.val)

Map(f(_), s) == [i \in 1..Len(s) |-> f(s[i])]

(***************************************************************************)
(* Errors.                                                                 *)
(***************************************************************************)
APIError(status) == [kind |-> "error", isAPIError |-> TRUE, status |-> status]

PlainError == [kind |-> "error", isAPIError |-> FALSE, status |-> Undefined]

\* APIError.fromError: an APIError is kept, anything else becomes a 500
fromError(e) == IF e.isAPIError THEN e ELSE APIError(Num(500))

\* what a hook, a label mapper or a backend operation may throw or reject with
ExternalThrown ==
  { APIError(Num(403)),
    PlainError,
    Arr(<<APIError(DigitStr(<<4, 2, 2>>)), APIError(Num(409))>>),
    Arr(<<>>) }

(***************************************************************************)
(* Media types and content negotiation.                                    *)
(***************************************************************************)
JSONAPI == "application/vnd.api+json"

JSON == "application/json"

MediaTypes == {JSONAPI, JSON, "text/html"}

RECURSIVE SeqsUpTo(_, _)
SeqsUpTo(S, n) ==
  IF n = 0 THEN {<<>>}
  ELSE LET shorter == SeqsUpTo(S, n - 1)
       IN  shorter \cup {Append(s, x) : s \in shorter, x \in S}

AcceptLists == SeqsUpTo(MediaTypes, MaxAccepts)

NotAcceptable == [kind |-> "rejected", error |-> APIError(Num(406))]

\* The first type of the client's list that the server can produce: a supported
\* type, or the generic JSON type; a rejection when there is none.
negotiateContentType(accepts, supported) ==
  LET ok == {i \in 1..Len(accepts) :
               accepts[i] = JSON \/ \E j \in 1..Len(supported) : supported[j] = accepts[i]}
  IN  IF ok = {} THEN NotAcceptable
      ELSE Str(accepts[CHOOSE i \in ok : \A k \in ok : i <= k])

\* the lower-case form of one character: A to Z change, any other stays
LowerChar(c) ==
  CASE c = "A" -> "a"
    [] c = "B" -> "b"
    [] c = "C" -> "c"
    [] c = "D" -> "d"
    [] c = "E" -> "e"
    [] c = "F" -> "f"
    [] c = "G" -> "g"
    [] c = "H" -> "h"
    [] c = "I" -> "i"
    [] c = "J" -> "j"
    [] c = "K" -> "k"
    [] c = "L" -> "l"
    [] c = "M" -> "m"
    [] c = "N" -> "n"
    [] c = "O" -> "o"
    [] c = "P" -> "p"
    [] c = "Q" -> "q"
    [] c = "R" -> "r"
    [] c = "S" -> "s"
    [] c = "T" -> "t"
    [] c = "U" -> "u"
    [] c = "V" -> "v"
    [] c = "W" -> "w"
    [] c = "X" -> "x"
    [] c = "Y" -> "y"
    [] c = "Z" -> "z"
    [] OTHER -> c

RECURSIVE LowerFrom(_, _)
\* the characters of s from the i-th on, each in lower case
LowerFrom(s, i) ==
  IF i > Len(s) THEN ""
  ELSE LowerChar(SubSeq(s, i, i)) \o LowerFrom(s, i + 1)

\* String.prototype.toLowerCase, character by character
toLowerCase(s) == LowerFrom(s, 1)

(***************************************************************************)
(* The registry: configuration established before requests are served.     *)
(***************************************************************************)
TheRegistry ==
  [ types        |-> {"people", "places"},
    labelMappers |-> [t \in {"people"} |-> {"mine"}] ]

hasType(reg, type) == type \in reg.types

RECURSIVE JoinFrom(_, _)
\* Array.prototype.join(","): the ids from the i-th on, commas between them
JoinFrom(a, i) ==
  IF i > Len(a) THEN ""
  ELSE IF i = Len(a) THEN a[i]
  ELSE a[i] \o "," \o JoinFrom(a, i + 1)

\* the property key an idOrIds value is coerced to in labelMappers[labelOrId]
PropertyKey(v) ==
  CASE v.kind = "string" -> v.val
    [] v.kind = "array" -> JoinFrom(v.val, 1)
    [] v.kind = "undefined" -> "undefined"
    [] v.kind = "null" -> "null"
    [] OTHER -> "[object Object]"

\* the functions a plain object inherits from Object.prototype
ObjectPrototypeFunctions ==
  { "constructor", "hasOwnProperty", "isPrototypeOf", "propertyIsEnumerable",
    "toLocaleString", "toString", "valueOf", "__defineGetter__",
    "__defineSetter__", "__lookupGetter__", "__lookupSetter__" }

\* a mapper is registered for the type under the key of labelOrId
hasOwnLabelMapper(reg, type, labelOrId) ==
  /\ type \in DOMAIN reg.labelMappers
  /\ PropertyKey(labelOrId) \in reg.labelMappers[type]

\* labelMappers && labelMappers[labelOrId] is a function: one registered
\* under the key, or one the labelMappers object inherits under it
hasLabelMapper(reg, type, labelOrId) ==
  /\ type \in DOMAIN reg.labelMappers
  /\ \/ PropertyKey(labelOrId) \in reg.labelMappers[type]
     \/ PropertyKey(labelOrId) \in ObjectPrototypeFunctions

\* what a label mapper may return
MapperResults ==
  {Str("7"), Arr(<<"7", "8">>), Arr(<<>>), Null, Undefined}

\* adapter.getModel(...): the model handle the mapper is called with
ModelHandle == [kind |-> "Model"]

(***************************************************************************)
(* Requests and responses.                                                 *)
(***************************************************************************)
SupportedMethods == {"get", "post", "patch", "delete"}

Methods == SupportedMethods \cup {"put"}

IdOrIdsValues ==
  { Undefined, Str("1"), Str("mine"), Arr(<<"1", "2">>), Arr(<<>>),
    Str("toString"), Str("hasOwnProperty") }

Requests ==
  [ method            : Methods,
    hasBody           : BOOLEAN,
    accepts           : AcceptLists,
    type              : {"people", "places", "ghosts"},
    aboutRelationship : BOOLEAN,
    idOrIds           : IdOrIdsValues,
    allowLabel        : BOOLEAN,
    primary           : {Undefined} ]

\* the slot of a handle call that was never made
NoRequest ==
  [ method |-> "get", hasBody |-> FALSE, accepts |-> <<>>, type |-> "people",
    aboutRelationship |-> FALSE, idOrIds |-> Undefined, allowLabel |-> FALSE,
    primary |-> Undefined ]

\* new Response()
NewResponse ==
  [ contentType |-> Null,
    headers     |-> {},
    status      |-> Null,
    primary     |-> Undefined,
    included    |-> Undefined,
    errors      |-> <<>>,
    body        |-> Null ]

\* new Document(errors).get(true)
ErrorDocument(errors) == [doc |-> "errors", errors |-> errors]

\* new Document(primary, included, undefined, urlTemplates, uri).get(true)
DataDocument(primary, included) ==
  [doc |-> "data", primary |-> primary, included |-> included]

(***************************************************************************)
(* Returns the status code that best represents a set of error statuses.   *)
(***************************************************************************)
\* pickStatus, were it to take the last status
pickStatusLast(errStatuses) ==
  IF Len(errStatuses) = 0 THEN Undefined ELSE errStatuses[Len(errStatuses)]

pickStatus(errStatuses) ==
  IF Len(errStatuses) = 0 THEN Undefined ELSE errStatuses[1]

\* (v) => Number(v.status)
StatusNumber(v) == Num(Number(v.status))

(***************************************************************************)
(* handle: the catch block, and the tests that route the coroutine.        *)
(***************************************************************************)
\* Array.isArray(errors) ? errors : [errors]
errorsArr(thrown) == IF isArray(thrown) THEN thrown.val ELSE <<thrown>>

\* the content type of an error response, were it always forced to JSON:API
ErrorContentTypeForced(contentType) == Str(JSONAPI)

\* the content type an error response is left with
ErrorContentType(contentType) ==
  IF contentType # Str(JSON) THEN Str(JSONAPI) ELSE contentType

\* catch (errors) { ... }
Caught(resp, thrown) ==
  [resp EXCEPT !.contentType = ErrorContentType(@),
               !.errors = @ \o Map(fromError, errorsArr(thrown))]

\* the test for errors, were it to miss a single error
HasErrorsSeveral(resp) == Len(resp.errors) > 1

\* if(response.errors.length)
HasErrors(resp) == Len(resp.errors) > 0

\* the error branch: status, body, return response
ErrorResponse(resp) ==
  [resp EXCEPT !.status = pickStatus(Map(StatusNumber, resp.errors)),
               !.body = ErrorDocument(resp.errors)]

\* body construction, were it not to skip a 204
BuiltResponseAlways(resp) ==
  [resp EXCEPT !.body = DataDocument(resp.primary, resp.included)]

\* if(response.status !== 204) response.body = new Document(...)
BuiltResponse(resp) ==
  IF resp.status # Num(204)
    THEN [resp EXCEPT !.body = DataDocument(resp.primary, resp.included)]
    ELSE resp

\* if(request.idOrIds && request.allowLabel)
WantsLabel(req) == Truthy(req.idOrIds) /\ req.allowLabel

\* mappedLabel === null || mappedLabel === undefined || mappedIsEmptyArray
MapsToNothing(mappedLabel) ==
  \/ mappedLabel = Null
  \/ mappedLabel = Undefined
  \/ (isArray(mappedLabel) /\ Len(mappedLabel.val) = 0)

\* response.primary = (mappedLabel) ? new Collection() : null
EmptyPrimary(mappedLabel) ==
  IF Truthy(mappedLabel) THEN Collection(<<>>) ELSE Null

\* the test before the query, were it to ignore a primary already set
NeedsQueryAlways(resp) == TRUE

\* if(typeof response.primary === "undefined")
NeedsQuery(resp) == resp.primary.kind = "undefined"

\* the resources a delete hands to beforeDelete
toTransform(req) ==
  CASE isArray(req.idOrIds) ->
         Collection(Map(LAMBDA id : Resource(req.type, id), req.idOrIds.val))
    [] req.idOrIds.kind = "string" -> Resource(req.type, req.idOrIds.val)
    [] OTHER -> Undefined

\* the stage that follows the type check, the body steps, the label step
AfterLabel(req) == IF req.method = "delete" THEN "beforeDelete" ELSE "doQuery"

AfterBody(req) == IF WantsLabel(req) THEN "labelToIds" ELSE AfterLabel(req)

AfterTypeCheck(req) ==
  IF req.hasBody THEN "validateContentType" ELSE AfterBody(req)

(***************************************************************************)
(* The steps handle calls that live outside the controller.                *)
(***************************************************************************)
\* a body is needed by post and patch, and by no other method
needsBody(req) == req.method \in {"post", "patch"}

\* parseRequestPrimary(data, aboutRelationship)
parseRequestPrimary(req) ==
  IF req.aboutRelationship
    THEN [kind |-> "Linkage", type |-> req.type, id |-> "new"]
    ELSE Resource(req.type, "new")

\* whether a value holds resources a hook is called for
HoldsResources(v) ==
  \/ v.kind \in {"Resource", "Linkage"}
  \/ (v.kind = "Collection" /\ Len(v.val) > 0)

\* a local not assigned yet, a function not called yet
Nothing == [kind |-> "nothing"]

\* handle's locals before anything was caught or mapped
NoLocals ==
  [ caught |-> Nothing, labelOrId |-> Nothing, mapperResult |-> Nothing,
    mappedLabel |-> Nothing ]

\* what applyTransform may resolve with: the value, or the value with its
\* resources removed by the hook
TransformResults(v) ==
  IF HoldsResources(v)
    THEN {v, IF v.kind = "Collection" THEN Collection(<<>>) ELSE Undefined}
    ELSE {v}

\* the calls of applyTransform(v, hook): the step itself, and the hook of the
\* resources' type when v holds any
Applied(step, hook, v) == IF HoldsResources(v) THEN <<step, hook>> ELSE <<step>>

\* what applyTransform may reject with
TransformThrown(v) == IF HoldsResources(v) THEN ExternalThrown ELSE {}

\* the adapter operation behind doGET, doPOST, doPATCH, doDELETE
BackendOp(method) ==
  CASE method = "get" -> "find"
    [] method = "post" -> "create"
    [] method = "patch" -> "update"
    [] method = "delete" -> "delete"

\* what a do-query step may leave on the response
BackendResults(req) ==
  CASE req.method = "get" ->
         { [primary |-> Resource(req.type, "1"), included |-> Undefined,
            status |-> Num(200)],
           [primary |-> Collection(<<Resource(req.type, "1")>>),
            included |-> Collection(<<Resource(req.type, "9")>>),
            status |-> Num(200)] }
    [] req.method = "post" ->
         { [primary |-> Resource(req.type, "new"), included |-> Undefined,
            status |-> Num(201)] }
    [] req.method = "patch" ->
         { [primary |-> Resource(req.type, "1"), included |-> Undefined,
            status |-> Num(200)] }
    [] req.method = "delete" ->
         { [primary |-> Undefined, included |-> Undefined,
            status |-> Num(204)] }

(***************************************************************************)
(* handle: one action per stage of the coroutine.  A stage that fails      *)
(* throws into the catch block, which runs in the same step.               *)
(***************************************************************************)
StepWithSharedResponse(r, name, nextPc, resp, loc) ==
  /\ calls' = [calls EXCEPT ![r] = @ \o name]
  /\ pc' = [pc EXCEPT ![r] = nextPc]
  /\ response' = [s \in Reqs |-> IF pc[s] = "idle" THEN response[s] ELSE resp]
  /\ locals' = [locals EXCEPT ![r] = loc]

\* a stage of call r resolves: the call's own log, position, Response, locals
StepWith(r, name, nextPc, resp, loc) ==
  /\ calls' = [calls EXCEPT ![r] = @ \o name]
  /\ pc' = [pc EXCEPT ![r] = nextPc]
  /\ response' = [response EXCEPT ![r] = resp]
  /\ locals' = [locals EXCEPT ![r] = loc]

Step(r, name, nextPc, resp) == StepWith(r, name, nextPc, resp, locals[r])

\* a stage rejects: the catch block gets what it threw, after the calls so far
Throw(r, name, thrown) ==
  StepWith(r, name, "errorCheck", Caught(response[r], thrown),
           [locals[r] EXCEPT !.caught = [thrown |-> thrown,
                                         at |-> Len(calls[r]) + Len(name)]])

\* the method check, were its rejection not to stop the coroutine
CheckMethodUnchecked(r) ==
  /\ pc[r] = "checkMethod"
  /\ Step(r, <<"checkMethod">>, "checkBodyExistence", response[r])
  /\ UNCHANGED <<registry, request, parsed, ext, rq, hk>>

\* yield requestValidators.checkMethod(request)
CheckMethod(r) ==
  /\ pc[r] = "checkMethod"
  /\ IF request[r].method \in SupportedMethods
       THEN Step(r, <<"checkMethod">>, "checkBodyExistence", response[r])
       ELSE Throw(r, <<"checkMethod">>, APIError(Num(405)))
  /\ UNCHANGED <<registry, request, parsed, ext, rq, hk>>

\* yield requestValidators.checkBodyExistence(request)
CheckBodyExistence(r) ==
  /\ pc[r] = "checkBodyExistence"
  /\ IF request[r].hasBody = needsBody(request[r])
       THEN Step(r, <<"checkBodyExistence">>, "negotiate", response[r])
       ELSE Throw(r, <<"checkBodyExistence">>, APIError(Num(400)))
  /\ UNCHANGED <<registry, request, parsed, ext, rq, hk>>

\* response.contentType = yield negotiateContentType(...); headers.vary = "Accept"
Negotiate(r) ==
  /\ pc[r] = "negotiate"
  /\ LET res == negotiateContentType(request[r].accepts, <<JSONAPI>>)
     IN  IF res.kind = "rejected"
           THEN Throw(r, <<"negotiateContentType">>, res.error)
           ELSE Step(r, <<"negotiateContentType">>, "checkType",
                     [response[r] EXCEPT !.contentType = res,
                                         !.headers = @ \cup {<<"vary", "Accept">>}])
  /\ UNCHANGED <<registry, request, parsed, ext, rq, hk>>

\* the type check, were it not to throw for an unregistered type
CheckTypeUnchecked(r) ==
  /\ pc[r] = "checkType"
  /\ Step(r, <<"hasType">>, AfterTypeCheck(request[r]), response[r])
  /\ UNCHANGED <<registry, request, parsed, ext, rq, hk>>

\* if(!registry.hasType(request.type)) throw new APIError(404, ...)
CheckType(r) ==
  /\ pc[r] = "checkType"
  /\ IF hasType(registry, request[r].type)
       THEN Step(r, <<"hasType">>, AfterTypeCheck(request[r]), response[r])
       ELSE Throw(r, <<"hasType">>, APIError(Num(404)))
  /\ UNCHANGED <<registry, request, parsed, ext, rq, hk>>

BodyStepUnchecked(r, at, name, nextPc, error) ==
  /\ pc[r] = at
  /\ \E ok \in BOOLEAN :
       IF ok THEN Step(r, <<name>>, nextPc, response[r])
             ELSE StepWith(r, <<name>>, nextPc, Caught(response[r], error),
                           [locals[r] EXCEPT !.caught =
                              [thrown |-> error, at |-> Len(calls[r]) + 1]])

\* a validation step of the body: it resolves, or rejects with its error
BodyStep(r, at, name, nextPc, error) ==
  /\ pc[r] = at
  /\ \E ok \in BOOLEAN :
       IF ok THEN Step(r, <<name>>, nextPc, response[r])
             ELSE Throw(r, <<name>>, error)

\* yield validateContentType(request, supportedExt)
ValidateContentType(r) ==
  /\ BodyStep(r, "validateContentType", "validateContentType",
              "validateDocument", APIError(Num(415)))
  /\ UNCHANGED <<registry, request, parsed, ext, rq, hk>>

\* yield validateRequestDocument(request.body)
ValidateDocument(r) ==
  /\ BodyStep(r, "validateDocument", "validateRequestDocument",
              "parsePrimary", APIError(Num(400)))
  /\ UNCHANGED <<registry, request, parsed, ext, rq, hk>>

\* let parsedPrimary = yield parseRequestPrimary(data, aboutRelationship)
ParsePrimary(r) ==
  /\ BodyStep(r, "parsePrimary", "parseRequestPrimary",
              IF request[r].aboutRelationship THEN "beforeSave"
                                              ELSE "validateResources",
              APIError(Num(400)))
  /\ parsed' = [parsed EXCEPT ![r] =
                  IF pc'[r] = "errorCheck" THEN @ ELSE parseRequestPrimary(request[r])]
  /\ UNCHANGED <<registry, request, ext, rq, hk>>

\* if(!request.aboutRelationship) yield validateRequestResources(...)
ValidateResources(r) ==
  /\ BodyStep(r, "validateResources", "validateRequestResources",
              "beforeSave",
              Arr(<<APIError(Num(400)), APIError(Num(403))>>))
  /\ UNCHANGED <<registry, request, parsed, ext, rq, hk>>

\* request.primary = yield applyTransform(parsedPrimary, "beforeSave", ...)
BeforeSave(r) ==
  /\ pc[r] = "beforeSave"
  /\ \/ \E v \in TransformResults(parsed[r]) :
          /\ request' = [request EXCEPT ![r].primary = v]
          /\ Step(r, Applied("beforeSave", "hook:beforeSave", parsed[r]),
                  AfterBody(request[r]), response[r])
     \/ \E t \in TransformThrown(parsed[r]) :
          /\ Throw(r, Applied("beforeSave", "hook:beforeSave", parsed[r]), t)
          /\ UNCHANGED request
  /\ UNCHANGED <<registry, parsed, ext, rq, hk>>

\* what labelToIds resolves with: Q(labelMapper(...)).then(resolve) when the
\* mapper is a function, resolve(labelOrId) otherwise
labelToIds(isFunction, labelOrId, mapperResult) ==
  IF isFunction THEN mapperResult ELSE labelOrId

\* what labelMapper(model, frameworkReq) does: a registered mapper returns a
\* value, throws, or returns a promise that rejects; an inherited function
\* is called without a receiver
MapperOutcomes(reg, type, labelOrId) ==
  IF hasOwnLabelMapper(reg, type, labelOrId)
    THEN {[kind |-> "returned", val |-> m] : m \in MapperResults}
         \cup {[kind |-> "threw", val |-> t] : t \in ExternalThrown}
         \cup {[kind |-> "rejected", val |-> PlainError]}
    ELSE CASE PropertyKey(labelOrId) = "toString" ->
                {[kind |-> "returned", val |-> Str("[object Undefined]")]}
           [] PropertyKey(labelOrId) = "constructor" ->
                {[kind |-> "returned", val |-> ModelHandle]}
           [] OTHER -> {[kind |-> "threw", val |-> PlainError]}

\* labelToIds resolved: request.idOrIds = mappedLabel, and the short circuit
LabelMapped(r, name, mappedLabel) ==
  /\ request' = [request EXCEPT ![r].idOrIds = mappedLabel]
  /\ calls' = [calls EXCEPT ![r] = @ \o name]
  /\ pc' = [pc EXCEPT ![r] = AfterLabel(request[r])]
  /\ response' = [response EXCEPT ![r] =
                    IF MapsToNothing(mappedLabel)
                      THEN [@ EXCEPT !.primary = EmptyPrimary(mappedLabel)]
                      ELSE @]

\* let mappedLabel = yield labelToIds(type, idOrIds, registry, frameworkReq)
LabelToIds(r) ==
  LET labelOrId == request[r].idOrIds
      isFunction == hasLabelMapper(registry, request[r].type, labelOrId)
      called == [locals[r] EXCEPT !.labelOrId = labelOrId]
  IN
  /\ pc[r] = "labelToIds"
  /\ IF isFunction
       THEN \E o \in MapperOutcomes(registry, request[r].type, labelOrId) :
              \* Q(labelMapper(model, frameworkReq)).then(resolve)
              \/ /\ o.kind = "returned"
                 /\ LET mappedLabel == labelToIds(TRUE, labelOrId, o.val)
                    IN  /\ LabelMapped(r, <<"labelToIds", "labelMapper">>, mappedLabel)
                        /\ locals' = [locals EXCEPT ![r] =
                                        [called EXCEPT !.mapperResult = o.val,
                                                       !.mappedLabel = mappedLabel]]
              \* the mapper throws: Q.Promise rejects with what it threw
              \/ /\ o.kind = "threw"
                 /\ StepWith(r, <<"labelToIds", "labelMapper">>, "errorCheck",
                             Caught(response[r], o.val),
                             [called EXCEPT
                                !.mapperResult = [kind |-> "threw"],
                                !.caught = [thrown |-> o.val,
                                            at |-> Len(calls[r]) + 2]])
                 /\ UNCHANGED request
              \* the mapper's promise rejects: nothing settles labelToIds
              \/ /\ o.kind = "rejected"
                 /\ StepWith(r, <<"labelToIds", "labelMapper">>, "labelStalled",
                             response[r],
                             [called EXCEPT !.mapperResult = [kind |-> "rejected"]])
                 /\ UNCHANGED request
       ELSE \* resolve(labelOrId)
            LET mappedLabel == labelToIds(FALSE, labelOrId, Nothing)
            IN  /\ LabelMapped(r, <<"labelToIds">>, mappedLabel)
                /\ locals' = [locals EXCEPT ![r] =
                                [called EXCEPT !.mappedLabel = mappedLabel]]
  /\ UNCHANGED <<registry, parsed, ext, rq, hk>>

BeforeDeleteUnchecked(r) ==
  /\ pc[r] = "beforeDelete"
  /\ LET name == Applied("beforeDelete", "hook:beforeDelete", toTransform(request[r]))
     IN  \/ Step(r, name, "doQuery", response[r])
         \/ \E t \in TransformThrown(toTransform(request[r])) :
              StepWith(r, name, "doQuery", Caught(response[r], t),
                       [locals[r] EXCEPT !.caught =
                          [thrown |-> t, at |-> Len(calls[r]) + Len(name)]])
  /\ UNCHANGED <<registry, request, parsed, ext, rq, hk>>

\* if (request.method === "delete") yield applyTransform(toTransform, "beforeDelete")
BeforeDelete(r) ==
  /\ pc[r] = "beforeDelete"
  /\ LET name == Applied("beforeDelete", "hook:beforeDelete", toTransform(request[r]))
     IN  \/ Step(r, name, "doQuery", response[r])
         \/ \E t \in TransformThrown(toTransform(request[r])) : Throw(r, name, t)
  /\ UNCHANGED <<registry, request, parsed, ext, rq, hk>>

\* if(typeof response.primary === "undefined") switch(request.method) ...
DoQuery(r) ==
  /\ pc[r] = "doQuery"
  /\ IF NeedsQuery(response[r])
       THEN LET op == <<BackendOp(request[r].method)>>
            IN  \/ \E res \in BackendResults(request[r]) :
                     Step(r, op, "errorCheck",
                          [response[r] EXCEPT !.primary = res.primary,
                                              !.included = res.included,
                                              !.status = res.status])
                \* the step rejects
                \/ \E t \in ExternalThrown : Throw(r, op, t)
                \* the step records an error on the response and resolves
                \/ Step(r, op, "errorCheck",
                        [response[r] EXCEPT !.errors = Append(@, APIError(Num(409)))])
       ELSE Step(r, <<>>, "errorCheck", response[r])
  /\ UNCHANGED <<registry, request, parsed, ext, rq, hk>>

\* if(response.errors.length) { status; body; return response }
ErrorCheck(r) ==
  /\ pc[r] = "errorCheck"
  /\ IF HasErrors(response[r])
       THEN Step(r, <<>>, "done", ErrorResponse(response[r]))
       ELSE Step(r, <<>>, "renderPrimary", response[r])
  /\ UNCHANGED <<registry, request, parsed, ext, rq, hk>>

\* response.primary = yield applyTransform(response.primary, "beforeRender", ...)
RenderPrimary(r) ==
  /\ pc[r] = "renderPrimary"
  /\ LET name == Applied("beforeRender:primary", "hook:beforeRender:primary",
                         response[r].primary)
     IN  \/ \E v \in TransformResults(response[r].primary) :
              Step(r, name, "renderIncluded", [response[r] EXCEPT !.primary = v])
         \* outside the try block: the rejection is handle's own
         \/ \E t \in TransformThrown(response[r].primary) :
              Step(r, name, "rejected", response[r])
  /\ UNCHANGED <<registry, request, parsed, ext, rq, hk>>

\* response.included = yield applyTransform(response.included, "beforeRender", ...)
RenderIncluded(r) ==
  /\ pc[r] = "renderIncluded"
  /\ LET name == Applied("beforeRender:included", "hook:beforeRender:included",
                         response[r].included)
     IN  \/ \E v \in TransformResults(response[r].included) :
              Step(r, name, "buildBody", [response[r] EXCEPT !.included = v])
         \/ \E t \in TransformThrown(response[r].included) :
              Step(r, name, "rejected", response[r])
  /\ UNCHANGED <<registry, request, parsed, ext, rq, hk>>

\* if(response.status !== 204) response.body = ...; return response
BuildBody(r) ==
  /\ pc[r] = "buildBody"
  /\ Step(r, <<>>, "done", BuiltResponse(response[r]))
  /\ UNCHANGED <<registry, request, parsed, ext, rq, hk>>

Handle(r) ==
  \/ CheckMethod(r)
  \/ CheckBodyExistence(r)
  \/ Negotiate(r)
  \/ CheckType(r)
  \/ ValidateContentType(r)
  \/ ValidateDocument(r)
  \/ ParsePrimary(r)
  \/ ValidateResources(r)
  \/ BeforeSave(r)
  \/ LabelToIds(r)
  \/ BeforeDelete(r)
  \/ DoQuery(r)
  \/ ErrorCheck(r)
  \/ RenderPrimary(r)
  \/ RenderIncluded(r)
  \/ BuildBody(r)

(***************************************************************************)
(* responseFromExternalError(errors, requestAccepts)                       *)
(***************************************************************************)
NoExternalCall ==
  [pc |-> "idle", errors |-> Arr(<<>>), accepts |-> <<>>, response |-> NewResponse]

\* the synchronous part: errors, status and body of a new Response
ResponseFromExternalError ==
  /\ ext.pc = "start"
  /\ LET errors == Map(fromError, errorsArr(ext.errors))
     IN  ext' = [ext EXCEPT
                   !.pc = "negotiating",
                   !.response = [NewResponse EXCEPT
                      !.errors = errors,
                      !.status = pickStatus(Map(StatusNumber, errors)),
                      !.body = ErrorDocument(errors)]]
  /\ UNCHANGED <<registry, handleVars, rq, hk>>

ExternalContentTypeAlwaysJsonApi(res) == Str(JSONAPI)

\* the content type an external error response is given
ExternalContentType(res) ==
  IF res.kind = "rejected" THEN Str(JSONAPI)
  ELSE IF toLowerCase(res.val) = JSON THEN res ELSE Str(JSONAPI)

\* negotiateContentType(requestAccepts, ...).then(..., ...)
ExternalNegotiated ==
  /\ ext.pc = "negotiating"
  /\ ext' = [ext EXCEPT
               !.pc = "done",
               !.response.contentType =
                  ExternalContentType(negotiateContentType(ext.accepts, <<JSONAPI>>))]
  /\ UNCHANGED <<registry, handleVars, rq, hk>>

(***************************************************************************)
(* The specification of the controller: one handle call, or one call of    *)
(* responseFromExternalError.                                              *)
(***************************************************************************)
NoQuery == [pc |-> "idle"]

NoHookCall == [pc |-> "idle"]

HandleInit(active) ==
  /\ \E given \in [active -> Requests] :
       request = [r \in Reqs |-> IF r \in active THEN given[r] ELSE NoRequest]
  /\ response = [r \in Reqs |-> NewResponse]
  /\ pc = [r \in Reqs |-> IF r \in active THEN "checkMethod" ELSE "idle"]
  /\ parsed = [r \in Reqs |-> Undefined]
  /\ calls = [r \in Reqs |-> <<>>]
  /\ locals = [r \in Reqs |-> NoLocals]

ExternalInit ==
  /\ ext \in [pc : {"start"}, errors : ExternalThrown, accepts : AcceptLists,
              response : {NewResponse}]

Init ==
  /\ registry = TheRegistry
  /\ rq = NoQuery
  /\ hk = NoHookCall
  /\ \/ HandleInit({1}) /\ ext = NoExternalCall
     \/ HandleInit({}) /\ ExternalInit

Next ==
  \/ \E r \in Reqs : Handle(r)
  \/ ResponseFromExternalError
  \/ ExternalNegotiated

Spec == Init /\ [][Next]_vars

(***************************************************************************)
(* Two handle calls in flight at once: the steps of the two generators     *)
(* interleave in any order.                                                *)
(***************************************************************************)
ConcurrentRequests ==
  { [ method |-> "post", hasBody |-> TRUE, accepts |-> <<JSONAPI>>,
      type |-> "people", aboutRelationship |-> FALSE, idOrIds |-> Undefined,
      allowLabel |-> FALSE, primary |-> Undefined ],
    [ method |-> "delete", hasBody |-> FALSE, accepts |-> <<JSON>>,
      type |-> "people", aboutRelationship |-> FALSE, idOrIds |-> Str("mine"),
      allowLabel |-> TRUE, primary |-> Undefined ],
    [ method |-> "get", hasBody |-> FALSE, accepts |-> <<>>,
      type |-> "places", aboutRelationship |-> FALSE, idOrIds |-> Undefined,
      allowLabel |-> FALSE, primary |-> Undefined ] }

ConcurrentInit ==
  /\ registry = TheRegistry
  /\ ext = NoExternalCall
  /\ rq = NoQuery
  /\ hk = NoHookCall
  /\ \E first \in ConcurrentRequests, second \in ConcurrentRequests :
       request = [r \in Reqs |-> IF r = 1 THEN first
                                 ELSE IF r = 2 THEN second ELSE NoRequest]
  /\ response = [r \in Reqs |-> NewResponse]
  /\ pc = [r \in Reqs |-> IF r \in {1, 2} THEN "checkMethod" ELSE "idle"]
  /\ parsed = [r \in Reqs |-> Undefined]
  /\ calls = [r \in Reqs |-> <<>>]
  /\ locals = [r \in Reqs |-> NoLocals]

ConcurrentNext == \E r \in Reqs : Handle(r)

SpecConcurrent == ConcurrentInit /\ [][ConcurrentNext]_vars

(***************************************************************************)
(* runQuery(registry, query)                                               *)
(***************************************************************************)
\* v == null
IsNullish(v) == v.kind \in {"undefined", "null"}

QueryKinds ==
  <<"CreateQuery", "FindQuery", "DeleteQuery", "UpdateQuery",
    "AddToRelationshipQuery", "RemoveFromRelationshipQuery">>

\* the adapter method each query class is routed to, in the order tested
AdapterMethod(kind) ==
  CASE kind = "CreateQuery" -> "create"
    [] kind = "FindQuery" -> "find"
    [] kind = "DeleteQuery" -> "delete"
    [] kind = "UpdateQuery" -> "update"
    [] kind = "AddToRelationshipQuery" -> "addToRelationship"
    [] kind = "RemoveFromRelationshipQuery" -> "removeFromRelationship"

AdapterMethods == {AdapterMethod(QueryKinds[i]) : i \in DOMAIN QueryKinds}

Limits == {Undefined, Null} \cup {Num(n) : n \in 0..MaxLimit}

PageSizes == {Undefined} \cup {Num(n) : n \in 1..MaxPageSize}

\* the queries runQuery is given; a FindQuery always carries criteria
Queries ==
  { q \in [ kind           : {QueryKinds[i] : i \in DOMAIN QueryKinds},
            type           : {"schools"},
            withCriteria   : BOOLEAN,
            limit          : Limits,
            ignoreLimitMax : BOOLEAN ] :
      /\ (q.kind = "FindQuery" => q.withCriteria)
      /\ (~q.withCriteria => (q.limit = Undefined /\ ~q.ignoreLimitMax)) }

\* the error enforceMaxLimit throws
LimitTooLarge ==
  [ kind |-> "error", isAPIError |-> TRUE, status |-> Num(400),
    detail |-> "Must use a smaller limit per page.",
    source |-> [parameter |-> "page[limit]"] ]

\* new Error("Unexpected query type."): the text is its message
UnexpectedQueryType ==
  [ kind |-> "error", isAPIError |-> FALSE, status |-> Undefined,
    message |-> "Unexpected query type.", detail |-> Undefined,
    source |-> Undefined ]

\* what an adapter method throws when it throws instead of returning
AdapterError(method) ==
  [ kind |-> "error", isAPIError |-> FALSE, status |-> Undefined,
    message |-> "backend threw", detail |-> Undefined, source |-> Undefined,
    by |-> method ]

enforceMaxLimitByDefault(pagination, query) ==
  /\ ~query.ignoreLimitMax
  /\ ~IsNullish(pagination.defaultPageSize)
  /\ ~IsNullish(query.limit)
  /\ query.limit.val > pagination.defaultPageSize.val

\* enforceMaxLimit: whether it throws
enforceMaxLimit(pagination, query) ==
  /\ ~query.ignoreLimitMax
  /\ ~IsNullish(pagination.maxPageSize)
  /\ ~IsNullish(query.limit)
  /\ query.limit.val > pagination.maxPageSize.val

applyDefaultLimitAlways(pagination, query) ==
  IF ~IsNullish(pagination.defaultPageSize)
    THEN [query EXCEPT !.limit = pagination.defaultPageSize]
    ELSE query

\* applyDefaultLimit: the query, or query.withLimit(defaultPageSize)
applyDefaultLimit(pagination, query) ==
  IF IsNullish(query.limit) /\ ~IsNullish(pagination.defaultPageSize)
    THEN [query EXCEPT !.limit = pagination.defaultPageSize]
    ELSE query

\* the query runQuery hands to dispatchQuery
finalizedQuery(pagination, query) ==
  IF query.withCriteria THEN applyDefaultLimit(pagination, query) ELSE query

dispatchQueryFirstMethod(adapter, query) ==
  LET hits == {i \in DOMAIN QueryKinds : AdapterMethod(QueryKinds[i]) \in adapter}
  IN  IF hits = {} THEN "none"
      ELSE AdapterMethod(QueryKinds[CHOOSE i \in hits : \A k \in hits : i <= k])

\* dispatchQuery: the adapter method chosen, "none" when there is none
dispatchQuery(adapter, query) ==
  LET hits == {i \in DOMAIN QueryKinds :
                 query.kind = QueryKinds[i] /\ AdapterMethod(QueryKinds[i]) \in adapter}
  IN  IF hits = {} THEN "none"
      ELSE AdapterMethod(QueryKinds[CHOOSE i \in hits : \A k \in hits : i <= k])

\* runQuery up to the adapter call: it throws, or one adapter method is invoked
RunQuery ==
  /\ rq.pc = "start"
  /\ IF rq.query.withCriteria /\ enforceMaxLimit(rq.pagination, rq.query)
       THEN rq' = [rq EXCEPT !.pc = "thrown", !.error = LimitTooLarge]
       ELSE LET final == finalizedQuery(rq.pagination, rq.query)
                method == dispatchQuery(rq.adapter, final)
            IN  IF method = "none"
                  THEN rq' = [rq EXCEPT !.pc = "thrown", !.error = UnexpectedQueryType]
                  ELSE rq' = [rq EXCEPT !.pc = "dispatched",
                                        !.invoked = Append(@, [method |-> method,
                                                               query |-> final])]
  /\ UNCHANGED <<registry, handleVars, ext, hk>>

\* what the adapter method returns, which runQuery returns unmodified; when
\* the method throws, runQuery throws with it and returns nothing
AdapterSettles ==
  /\ rq.pc = "dispatched"
  /\ LET method == rq.invoked[Len(rq.invoked)].method
     IN  \/ \E outcome \in {"resolved", "rejected"} :
              rq' = [rq EXCEPT !.pc = outcome,
                               !.result = [by |-> method, outcome |-> outcome]]
         \/ rq' = [rq EXCEPT !.pc = "thrown", !.error = AdapterError(method)]
  /\ UNCHANGED <<registry, handleVars, ext, hk>>

RunQueryInit ==
  /\ registry = TheRegistry
  /\ HandleInit({})
  /\ ext = NoExternalCall
  /\ hk = NoHookCall
  /\ \E q \in Queries, d \in PageSizes, m \in PageSizes,
        missing \in AdapterMethods \cup {"none"} :
       rq = [ pc         |-> "start",
              query      |-> q,
              pagination |-> [defaultPageSize |-> d, maxPageSize |-> m],
              adapter    |-> AdapterMethods \ {missing},
              invoked    |-> <<>>,
              error      |-> Undefined,
              result     |-> Undefined ]

RunQueryNext ==
  \/ RunQuery
  \/ AdapterSettles

SpecRunQuery == RunQueryInit /\ [][RunQueryNext]_vars

(***************************************************************************)
(* The hook invoker: triggerHook(resource, hook, registry, ...) of         *)
(* trigger-hook.js, and its variant that is handed the type separately.    *)
(***************************************************************************)
HookNames == {"beforeSave", "beforeDelete", "beforeRender"}

HookTypes == {Str("people"), Str("places")}

\* the values handed in as the resource
HookResources ==
  { Resource("people", "1"), [kind |-> "Linkage", type |-> "places", id |-> "2"],
    Collection(<<>>), Undefined, Null }

\* the hooks a registry holds: pairs of a hook name and a type
HookRegistries == SUBSET ({"beforeSave", "beforeRender"} \X HookTypes)

\* what a registered hook function may return
HookValues == {Undefined, Resource("people", "1")}

\* resource.type: a TypeError for null and undefined
typeOf(resource) ==
  IF resource.kind \in {"undefined", "null"} THEN [kind |-> "TypeError"]
  ELSE IF resource.kind \in {"Resource", "Linkage"} THEN Str(resource.type)
  ELSE Undefined

\* let fn = registry[hook](type): whether a function is registered
hookFn(registered, hook, type) == <<hook, type>> \in registered

TypeErrorRaised == [kind |-> "raised", val |-> Str("TypeError"), called |-> FALSE]

\* if (!fn) return Promise.resolve([]);
\* return Promise.resolve(fn(resource, frameworkReq, frameworkRes));
invoke(found) ==
  IF ~found
    THEN {[kind |-> "resolved", val |-> Arr(<<>>), called |-> FALSE]}
    ELSE {[kind |-> "resolved", val |-> v, called |-> TRUE] : v \in HookValues}
         \* the hook returns a promise that rejects
         \cup {[kind |-> "rejected", val |-> PlainError, called |-> TRUE]}
         \* the hook throws: the invoker throws with it
         \cup {[kind |-> "raised", val |-> PlainError, called |-> TRUE]}

\* trigger-hook.js: the type is read from the resource
TriggerHook ==
  /\ hk.pc = "ready"
  /\ hk.variant = "byResource"
  /\ Len(hk.results) < MaxInvocations
  /\ LET type == typeOf(hk.resource)
     IN  \E res \in (IF type.kind = "TypeError"
                       THEN {TypeErrorRaised}
                       ELSE invoke(hookFn(hk.registered, hk.hook, type))) :
           hk' = [hk EXCEPT !.results = Append(@, res)]
  /\ UNCHANGED <<registry, handleVars, ext, rq>>

\* the variant that is handed the type: the resource is only passed on
TriggerHookByType ==
  /\ hk.pc = "ready"
  /\ hk.variant = "byType"
  /\ Len(hk.results) < MaxInvocations
  /\ \E res \in invoke(hookFn(hk.registered, hk.hook, hk.type)) :
       hk' = [hk EXCEPT !.results = Append(@, res)]
  /\ UNCHANGED <<registry, handleVars, ext, rq>>

HookInit ==
  /\ registry = TheRegistry
  /\ HandleInit({})
  /\ ext = NoExternalCall
  /\ rq = NoQuery
  /\ \E variant \in {"byResource", "byType"}, resource \in HookResources,
        type \in HookTypes, hook \in HookNames, registered \in HookRegistries :
       hk = [ pc         |-> "ready",
              variant    |-> variant,
              resource   |-> resource,
              type       |-> IF variant = "byType" THEN type ELSE Undefined,
              hook       |-> hook,
              registered |-> registered,
              results    |-> <<>> ]

HookNext ==
  \/ TriggerHook
  \/ TriggerHookByType

SpecHook == HookInit /\ [][HookNext]_vars

(***************************************************************************)
(* Properties of the controller and of runQuery.                           *)
(***************************************************************************)
Called(r, name) == \E i \in DOMAIN calls[r] : calls[r][i] = name

BackendCalled(r) == \E op \in {"find", "create", "update", "delete"} : Called(r, op)

RenderCalled(r) ==
  Called(r, "beforeRender:primary") \/ Called(r, "beforeRender:included")

\* what negotiation chose for call r, once it has run
Negotiated(r) ==
  IF Called(r, "negotiateContentType")
    THEN negotiateContentType(request[r].accepts, <<JSONAPI>>)
    ELSE Undefined

\* C1: whichever stage of handle fails, the failure is caught and handle
\* completes with a Response holding the failure in its error list; handle
\* never ends in a rejection.
C1_HandleNeverRejects ==
  \A r \in Reqs : pc[r] # "rejected"

\* C2 (as stated): a completed Response has its body built from the error
\* list if and only if the error list is non-empty, and otherwise a body built
\* from primary/included; never neither.
C2_BodyAlwaysSet ==
  \A r \in Reqs :
    pc[r] = "done" =>
      IF Len(response[r].errors) > 0
        THEN response[r].body = ErrorDocument(response[r].errors)
        ELSE response[r].body =
               DataDocument(response[r].primary, response[r].included)

\* C2 (amended): a completed Response has its body built from the error list
\* if and only if the error list is non-empty; without errors it has a body
\* built from primary/included unless its status is 204, and then no body.
C2_BodyUnlessNoContent ==
  \A r \in Reqs :
    pc[r] = "done" =>
      IF Len(response[r].errors) > 0
        THEN response[r].body = ErrorDocument(response[r].errors)
        ELSE IF response[r].status = Num(204)
          THEN response[r].body = Null
          ELSE response[r].body =
                 DataDocument(response[r].primary, response[r].included)

C2_Witness ==
  \E r \in Reqs :
    /\ pc[r] = "done"
    /\ response[r].errors = <<>>
    /\ response[r].status = Num(204)
    /\ response[r].body = Null

\* C3: once the response's error list is non-empty, whether a stage threw or
\* a step added errors without throwing, no beforeRender hook is invoked for
\* primary or included and the body is built from the error list alone.
C3_ErrorsSkipRender ==
  \A r \in Reqs :
    Len(response[r].errors) > 0 =>
      /\ ~RenderCalled(r)
      /\ pc[r] \in {"errorCheck", "done"}
      /\ (pc[r] = "done" =>
            response[r].body = ErrorDocument(response[r].errors))

C3_Witness ==
  \E r \in Reqs :
    /\ pc[r] = "done"
    /\ response[r].errors = <<APIError(Num(409))>>
    /\ response[r].contentType = Negotiated(r)
    /\ BackendCalled(r)

\* C4: a Response completed with a non-empty error list, by handle or by
\* responseFromExternalError, has the status of the first error of the list.
C4_FirstErrorStatus ==
  /\ \A r \in Reqs :
       (pc[r] = "done" /\ Len(response[r].errors) > 0) =>
         response[r].status = Num(Number(response[r].errors[1].status))
  /\ (ext.pc = "done" /\ Len(ext.response.errors) > 0) =>
       ext.response.status = Num(Number(ext.response.errors[1].status))

C4_Witness ==
  \E r \in Reqs :
    /\ pc[r] = "done"
    /\ Len(response[r].errors) = 2
    /\ response[r].errors[1].status = DigitStr(<<4, 2, 2>>)
    /\ response[r].errors[2].status = Num(409)
    /\ response[r].status = Num(422)

\* C5: every Response produced has the header Vary: Accept, also when the
\* method check, the body check or the negotiation fails, and when it is
\* built by responseFromExternalError.
C5_VaryAlwaysSet ==
  /\ \A r \in Reqs : pc[r] = "done" => <<"vary", "Accept">> \in response[r].headers
  /\ ext.pc = "done" => <<"vary", "Accept">> \in ext.response.headers

\* C6: a Response that handle completes in the error branch has content type
\* application/json if negotiation had chosen it before the failure, and
\* application/vnd.api+json in every other case.
C6_ErrorContentType ==
  \A r \in Reqs :
    (pc[r] = "done" /\ Len(response[r].errors) > 0) =>
      response[r].contentType =
        IF Negotiated(r) = Str(JSON) THEN Str(JSON) ELSE Str(JSONAPI)

C6_Witness ==
  \E r \in Reqs :
    /\ pc[r] = "done"
    /\ Len(response[r].errors) > 0
    /\ Negotiated(r) = Str(JSON)
    /\ response[r].contentType = Str(JSON)
    /\ Called(r, "hasType")

\* C7: for a method other than get/post/patch/delete, checkMethod fails
\* before any other stage runs and the Response carries only the method error.
C7_BadMethodStopsFirst ==
  \A r \in Reqs :
    (pc[r] # "idle" /\ request[r].method \notin {"get", "post", "patch", "delete"}) =>
      /\ calls[r] \in {<<>>, <<"checkMethod">>}
      /\ pc[r] \in {"checkMethod", "errorCheck", "done"}
      /\ (pc[r] # "checkMethod" => response[r].errors = <<APIError(Num(405))>>)
      /\ (pc[r] = "done" => response[r].status = Num(405))

C7_Witness ==
  \E r \in Reqs :
    /\ pc[r] = "done"
    /\ request[r].method = "put"
    /\ calls[r] = <<"checkMethod">>
    /\ response[r].errors = <<APIError(Num(405))>>

\* C8: a request whose type is not registered, having passed the method, body
\* and negotiation stages, gets a 404 error and no further stage runs.
C8_UnknownTypeStops ==
  \A r \in Reqs :
    (Called(r, "hasType") /\ request[r].type \notin registry.types) =>
      /\ calls[r] = <<"checkMethod", "checkBodyExistence",
                      "negotiateContentType", "hasType">>
      /\ pc[r] \in {"errorCheck", "done"}
      /\ response[r].errors = <<APIError(Num(404))>>
      /\ (pc[r] = "done" => response[r].status = Num(404))

C8_Witness ==
  \E r \in Reqs :
    /\ pc[r] = "done"
    /\ request[r].type = "ghosts"
    /\ Called(r, "hasType")
    /\ response[r].status = Num(404)

\* C9: when label resolution yields an empty list the response's primary is
\* an empty Collection, when it yields null or undefined the primary is null,
\* and in both cases no backend operation is invoked for the request.
C9_EmptyLabelShortCircuits ==
  \A r \in Reqs :
    (Called(r, "labelToIds") /\ pc[r] # "labelStalled") =>
      /\ (request[r].idOrIds = Arr(<<>>) =>
            /\ ~BackendCalled(r)
            /\ (~RenderCalled(r) => response[r].primary = Collection(<<>>)))
      /\ (request[r].idOrIds \in {Null, Undefined} =>
            /\ ~BackendCalled(r)
            /\ (~RenderCalled(r) => response[r].primary = Null))

C9_Witness ==
  \E r \in Reqs :
    /\ pc[r] = "done"
    /\ Called(r, "labelMapper")
    /\ request[r].idOrIds = Arr(<<>>)
    /\ request[r].method = "delete"
    /\ response[r].errors = <<>>
    /\ response[r].body = DataDocument(Collection(<<>>), Undefined)

\* C10: for every criteria-carrying query and every pagination configuration
\* (a default larger than the maximum included), the limit of the query handed
\* to the adapter never exceeds maxPageSize unless ignoreLimitMax is set.
C10_LimitWithinMax ==
  \A i \in DOMAIN rq.invoked :
    LET q == rq.invoked[i].query
    IN  (/\ q.withCriteria
         /\ ~q.ignoreLimitMax
         /\ ~IsNullish(rq.pagination.maxPageSize)
         /\ ~IsNullish(q.limit)) =>
          q.limit.val <= rq.pagination.maxPageSize.val

\* the explicit limit of the query runQuery was given exceeds the maximum
\* page size configured for its type, and the maximum is not waived
ExceedsMax ==
  /\ rq.query.withCriteria
  /\ ~rq.query.ignoreLimitMax
  /\ rq.pagination.maxPageSize.kind = "number"
  /\ rq.query.limit.kind = "number"
  /\ rq.query.limit.val > rq.pagination.maxPageSize.val

\* C11: for a criteria-carrying query whose explicit limit exceeds the
\* configured maxPageSize and whose ignoreLimitMax is not set, runQuery fails
\* with the error that names page[limit] as its source and says 'Must use a
\* smaller limit per page.', and no adapter operation is invoked.
C11_LimitAboveMaxRejected ==
  (rq.pc \notin {"idle", "start"} /\ ExceedsMax) =>
    /\ rq.pc = "thrown"
    /\ rq.error.isAPIError
    /\ rq.error.detail = "Must use a smaller limit per page."
    /\ rq.error.source = [parameter |-> "page[limit]"]
    /\ rq.invoked = <<>>
    /\ rq.result = Undefined

C11_Witness ==
  /\ rq.pc = "thrown"
  /\ rq.query.kind = "FindQuery"
  /\ rq.query.limit = Num(3)
  /\ rq.pagination.maxPageSize = Num(2)
  /\ rq.error.source = [parameter |-> "page[limit]"]
  /\ rq.invoked = <<>>

\* C12: the limit of every criteria-carrying query handed to the adapter is
\* the explicit limit, unchanged, when one was requested (at or below the
\* maximum, or above it with ignoreLimitMax set), the type's defaultPageSize
\* when none was requested and a default is configured, and none otherwise.
C12_DispatchedLimit ==
  \A i \in DOMAIN rq.invoked :
    LET q == rq.invoked[i].query
    IN  rq.query.withCriteria =>
          /\ (rq.query.limit.kind = "number" => q.limit = rq.query.limit)
          /\ (rq.query.limit.kind # "number" =>
                IF rq.pagination.defaultPageSize.kind = "number"
                  THEN q.limit = rq.pagination.defaultPageSize
                  ELSE q.limit.kind # "number")

\* an explicit limit above the maximum goes through with ignoreLimitMax
C12_Witness ==
  /\ rq.pc = "resolved"
  /\ rq.query.kind = "FindQuery"
  /\ rq.query.ignoreLimitMax
  /\ rq.query.limit = Num(3)
  /\ rq.pagination = [defaultPageSize |-> Num(1), maxPageSize |-> Num(2)]
  /\ Len(rq.invoked) = 1
  /\ rq.invoked[1].query.limit = Num(3)

\* the adapter operation named after each query variant
SameName ==
  [ CreateQuery |-> "create", FindQuery |-> "find", DeleteQuery |-> "delete",
    UpdateQuery |-> "update", AddToRelationshipQuery |-> "addToRelationship",
    RemoveFromRelationshipQuery |-> "removeFromRelationship" ]

\* runQuery threw before it got to the adapter
ThrownBeforeDispatch == rq.pc = "thrown" /\ rq.invoked = <<>>

\* C13: for each of the six query variants, a runQuery call that gets to
\* dispatch (the limit was not rejected and the adapter has the operation)
\* invokes the adapter operation of the same name exactly once with the
\* finalized query, invokes no other operation, and ends as that operation
\* does: with what it returned, or with what it threw; a call that throws
\* before dispatch invokes nothing.
C13_DispatchByVariant ==
  /\ Len(rq.invoked) <= 1
  /\ (ThrownBeforeDispatch <=>
        (rq.pc \notin {"idle", "start"} /\
           (ExceedsMax \/ SameName[rq.query.kind] \notin rq.adapter)))
  /\ ((rq.pc \in {"dispatched", "resolved", "rejected", "thrown"} /\
        ~ThrownBeforeDispatch) =>
        rq.invoked = << [method |-> SameName[rq.query.kind],
                         query |-> finalizedQuery(rq.pagination, rq.query)] >>)
  /\ (rq.pc \in {"resolved", "rejected"} =>
        rq.result = [by |-> SameName[rq.query.kind], outcome |-> rq.pc])
  /\ ((rq.pc = "thrown" /\ ~ThrownBeforeDispatch) =>
        rq.error.by = SameName[rq.query.kind] /\ rq.result = Undefined)

C13_Witness ==
  /\ rq.pc = "resolved"
  /\ rq.query.kind = "RemoveFromRelationshipQuery"
  /\ rq.invoked = << [method |-> "removeFromRelationship", query |-> rq.query] >>
  /\ rq.result.by = "removeFromRelationship"

\* the type whose hook an invocation looks up, as far as one can be read
HookType ==
  IF hk.variant = "byType" THEN hk.type
  ELSE IF hk.resource.kind \in {"Resource", "Linkage"} THEN Str(hk.resource.type)
  ELSE Undefined

NoHookRegistered == <<hk.hook, HookType>> \notin hk.registered

EmptyResult == [kind |-> "resolved", val |-> Arr(<<>>), called |-> FALSE]

\* C14: invoked where no hook is registered under the given name,
\* the hook invoker resolves to an empty result and never raises, whatever
\* it is given as resource; no hook function is called, and repeating the
\* invocation gives the same result.
C14_MissingHookNeverRaises ==
  (hk.pc = "ready" /\ NoHookRegistered) =>
    \A i \in DOMAIN hk.results : hk.results[i] = EmptyResult

\* C15 (as stated): responseFromExternalError always completes with content
\* type application/json when the Accept header contains application/json,
\* and with application/vnd.api+json in every other case, a failed negotiation
\* included.
C15_JsonWhenAccepted ==
  ext.pc = "done" =>
    ext.response.contentType =
      IF \E i \in DOMAIN ext.accepts : ext.accepts[i] = JSON
        THEN Str(JSON) ELSE Str(JSONAPI)

\* C15 (amended): the content type is application/json when application/json
\* is what negotiation chooses, that is when it comes first among the types
\* of the Accept header the server can produce; it is application/vnd.api+json
\* in every other case, a failed negotiation included.
C15_JsonWhenNegotiated ==
  ext.pc = "done" =>
    LET producible == {i \in DOMAIN ext.accepts : ext.accepts[i] \in {JSON, JSONAPI}}
        first == CHOOSE i \in producible : \A k \in producible : i <= k
    IN  ext.response.contentType =
          IF producible # {} /\ ext.accepts[first] = JSON
            THEN Str(JSON) ELSE Str(JSONAPI)

C15_Witness ==
  /\ ext.pc = "done"
  /\ ext.accepts = <<"text/html", JSON>>
  /\ ext.errors = PlainError
  /\ ext.response.contentType = Str(JSON)
  /\ ext.response.body = ErrorDocument(ext.response.errors)

\* C16: when every hook, label mapper and backend call a handle call makes
\* has settled, by resolving or by rejecting, the call goes on until it
\* completes: as long as it is not completed one of its steps can run; a label
\* mapper whose promise rejects leads to an error Response, not to a request
\* that never completes.
C16_HandleCompletes ==
  \A r \in Reqs :
    \/ pc[r] \in {"idle", "done", "rejected"}
    \/ ENABLED Handle(r)

\* the place of each external call in the order of handle, 0 for a step
\* that is no external call
ExternalRank(name) ==
  CASE name = "hook:beforeSave" -> 1
    [] name = "labelMapper" -> 2
    [] name = "hook:beforeDelete" -> 3
    [] name \in {"find", "create", "update", "delete"} -> 4
    [] name = "hook:beforeRender:primary" -> 5
    [] name = "hook:beforeRender:included" -> 6
    [] OTHER -> 0

IsExternal(name) == ExternalRank(name) > 0

\* call r has had a stage fail: something was caught, or the mapper's
\* promise rejected
FailedAt(r) ==
  IF locals[r].caught # Nothing THEN locals[r].caught.at
  ELSE IF pc[r] = "labelStalled" THEN Len(calls[r])
  ELSE 0

\* C17: the external calls of one handle call occur in one fixed order, each
\* at most once: the beforeSave hook (only with a body), the label mapper
\* (only with idOrIds given and labels allowed), the beforeDelete hook (only
\* for delete), at most one backend operation, the beforeRender hook on the
\* primary data and then on the included data. After a failure of any stage
\* up to the backend operation no later external call is made; after a
\* failing beforeDelete hook the backend delete is never invoked.
C17_ExternalCallOrder ==
  \A r \in Reqs :
    /\ \A i, j \in DOMAIN calls[r] :
         (i < j /\ IsExternal(calls[r][i]) /\ IsExternal(calls[r][j])) =>
           ExternalRank(calls[r][i]) < ExternalRank(calls[r][j])
    /\ (Called(r, "hook:beforeSave") => request[r].hasBody)
    /\ (Called(r, "labelMapper") =>
          request[r].allowLabel /\ Truthy(locals[r].labelOrId))
    /\ (Called(r, "hook:beforeDelete") => request[r].method = "delete")
    /\ (FailedAt(r) > 0 =>
          \A i \in DOMAIN calls[r] : i > FailedAt(r) => ~IsExternal(calls[r][i]))
    /\ (Len(response[r].errors) > 0 =>
          ~Called(r, "hook:beforeRender:primary") /\
          ~Called(r, "hook:beforeRender:included"))
    /\ ((FailedAt(r) > 0 /\ calls[r][FailedAt(r)] = "hook:beforeDelete") =>
          ~Called(r, "delete"))

\* a delete by label whose beforeDelete hook rejects
C17_Witness ==
  \E r \in Reqs :
    /\ pc[r] = "done"
    /\ request[r].method = "delete"
    /\ Called(r, "labelMapper")
    /\ FailedAt(r) > 0
    /\ calls[r][FailedAt(r)] = "hook:beforeDelete"
    /\ FailedAt(r) = Len(calls[r])
    /\ ~Called(r, "delete")
    /\ Len(response[r].errors) > 0

\* the pre-query steps of a request with a body, in the order of handle
BodySteps(req) ==
  IF req.aboutRelationship
    THEN <<"validateContentType", "validateRequestDocument", "parseRequestPrimary",
           "beforeSave">>
    ELSE <<"validateContentType", "validateRequestDocument", "parseRequestPrimary",
           "validateRequestResources", "beforeSave">>

IsBodyStep(name) ==
  name \in {"validateContentType", "validateRequestDocument", "parseRequestPrimary",
            "validateRequestResources", "beforeSave"}

BodyCalls(r) == SelectSeq(calls[r], IsBodyStep)

\* C18: the pre-query steps run only for a request with a body, and then in
\* the order content-type validation, document validation, primary parsing,
\* resource validation (skipped exactly when the request is about a
\* relationship), beforeSave; a failure of one skips all later ones, so
\* beforeSave is never invoked on a body that failed validation and
\* request.primary is replaced only when all of them succeeded.
C18_BodyStepsInOrder ==
  \A r \in Reqs :
    LET done == BodyCalls(r)
        all == BodySteps(request[r])
    IN  /\ Len(done) <= Len(all)
        /\ done = SubSeq(all, 1, Len(done))
        /\ (done # <<>> => request[r].hasBody)
        /\ ((request[r].hasBody /\ FailedAt(r) = 0 /\
              pc[r] \in {"labelToIds", "beforeDelete", "doQuery", "done"}) =>
              done = all)
        /\ (FailedAt(r) > 0 =>
              \A i \in DOMAIN calls[r] : i > FailedAt(r) => ~IsBodyStep(calls[r][i]))
        /\ (request[r].primary # Undefined =>
              /\ done = all
              /\ (FailedAt(r) > 0 =>
                    \E i \in 1..(FailedAt(r) - 1) : calls[r][i] = "beforeSave"))

\* the body of a relationship request passes every step; a later stage fails
C18_Witness ==
  \E r \in Reqs :
    /\ pc[r] = "done"
    /\ request[r].hasBody
    /\ request[r].aboutRelationship
    /\ BodyCalls(r) = <<"validateContentType", "validateRequestDocument",
                        "parseRequestPrimary", "beforeSave">>
    /\ request[r].primary = parseRequestPrimary(request[r])
    /\ BackendCalled(r)
    /\ FailedAt(r) = Len(calls[r])

\* all that belongs to handle call r
Slot(r) == <<request[r], response[r], pc[r], parsed[r], calls[r], locals[r]>>

\* C19: with two handle calls in flight, interleaved in any order, no step
\* changes the Registry, and whatever changes the request, Response, locals
\* or position of a call is a step of that call's own handle, which leaves
\* every other call as it was: each call goes through the steps, and builds
\* the Response, of the same call handled alone.
C19_RequestsIsolated ==
  [][ /\ registry' = registry
      /\ \A r \in Reqs :
           Slot(r)' # Slot(r) =>
             /\ Handle(r)
             /\ \A s \in Reqs \ {r} : Slot(s)' = Slot(s) ]_vars

\* both calls completed, one with an error Response and one with a document
C19_Witness ==
  /\ pc[1] = "done" /\ pc[2] = "done"
  /\ request[1].method = "post" /\ request[2].method = "delete"
  /\ Len(response[1].errors) > 0
  /\ response[1].body = ErrorDocument(response[1].errors)
  /\ response[2].errors = <<>>
  /\ response[2].status = Num(204)
  /\ Called(2, "delete") /\ ~Called(1, "delete")

\* how often call r has invoked the step or function of that name
Count(r, name) == Cardinality({i \in DOMAIN calls[r] : calls[r][i] = name})

\* C20: labelToIds resolves with the label it was given, unchanged, when the
\* type has no label mappers or no mapper registered under that label;
\* otherwise it calls the mapper exactly once and resolves with what the
\* mapper returned; handle stores the resolution as request.idOrIds and does
\* not resolve it a second time.
C20_LabelResolution ==
  \A r \in Reqs :
    LET l == locals[r]
    IN  /\ Count(r, "labelToIds") <= 1
        /\ Count(r, "labelMapper") <= 1
        /\ (Called(r, "labelToIds") <=> l.labelOrId # Nothing)
        /\ (Called(r, "labelToIds") =>
              IF hasOwnLabelMapper(registry, request[r].type, l.labelOrId)
                THEN /\ Called(r, "labelMapper")
                     /\ (l.mapperResult \in MapperResults =>
                           /\ l.mappedLabel = l.mapperResult
                           /\ request[r].idOrIds = l.mapperResult)
                ELSE /\ ~Called(r, "labelMapper")
                     /\ l.mappedLabel = l.labelOrId
                     /\ request[r].idOrIds = l.labelOrId)

====
